---------------------------- MODULE Spec2Model ----------------------------
(***************************************************************************)
(* A model of src/plugins/PFC/pfc.py: the per-stream registry of           *)
(* Conversation objects (get_instance, _initialize, start, the decision    *)
(* loop and the stop path), the decision loop of one conversation, and the *)
(* goal list of GoalAnalyzer.                                              *)
(*                                                                         *)
(* The program runs on asyncio: one task runs at a time and control        *)
(* changes hands only at an await that really suspends.  An action of the  *)
(* model is therefore the code one task runs between two suspensions.      *)
(* asyncio.Lock.acquire() does not suspend when the lock is free, and no   *)
(* task suspends while holding _instance_lock (the waiting path releases   *)
(* it by hand before awaiting the event), so the lock is free at every     *)
(* suspension and the locked sections are parts of single actions.         *)
(***************************************************************************)
EXTENDS Integers, Sequences, FiniteSets, TLC

(***************************************************************************)
(* Bounds of the model.                                                    *)
(***************************************************************************)
NumKeys == 1
NumCallers == 3
MaxAttempts == 3
MaxStarts == 1

Keys == 1..NumKeys
Callers == 1..NumCallers
Ids == 1..MaxAttempts

\* Python's None: an absent registry entry, or get_instance returning no instance.
None == 0

VARIABLES
    \* ---- class-level registry of Conversation ----
    instances,        \* _instances: key -> instance id, None when the key is absent
    initializing,     \* _initializing: key -> BOOLEAN (an absent key reads as FALSE)
    init_events,      \* _init_events: key -> event id, None when the key is absent
    event_set,        \* the asyncio.Event objects that have been set()
    attempts,         \* number of creation attempts so far: attempt n makes Event n
                      \* and, when the constructor succeeds, Conversation n
    \* ---- get_instance calls ----
    caller_pc,        \* "idle", "waiting" (suspended in wait_for), "done"
    caller_key,       \* stream_id of the call
    caller_event,     \* the Event object the call waits on
    caller_result,    \* the value returned
    \* ---- Conversation objects ----
    inst_key,         \* stream_id of a constructed instance, None when not constructed
    init_pc,          \* position of the _initialize task of an instance
    should_continue,  \* Conversation.should_continue
    loops,            \* per instance: how many _conversation_loop executions are at each position
    starts,           \* number of start() calls made so far
    observer,         \* per key: "idle", "running", "stopped" (the stream's ChatObserver feed)
    \* ---- history ----
    epoch,            \* per key: number of evictions from _instances so far
    caller_epoch,     \* epoch of the key when the call returned
    inst_epoch,       \* epoch of the key when the instance was registered
    fail_fired,       \* events set by the failure branch of _initialize
    caller_note,      \* what a finished call did: "", "fast", "created", "ctor_failed",
                      \* "timeout", "woke_found", "woke_created", "woke_ctor_failed"
    fresh_remove,     \* per key: remove_instance evicted the key and no call was made since
    caller_after_remove \* the call was the first one made after such an eviction

rvars == <<instances, initializing, init_events, event_set, attempts,
           caller_pc, caller_key, caller_event, caller_result,
           inst_key, init_pc, should_continue, loops, starts, observer,
           epoch, caller_epoch, inst_epoch, fail_fired, caller_note,
           fresh_remove, caller_after_remove>>

VARIABLES
    \* ---- GoalAnalyzer and the goal fields of one Conversation ----
    goals,            \* GoalAnalyzer.goals: sequence of <<goal, method, reasoning>>
    current,          \* <<current_goal, current_method, goal_reasoning>>, NoGoal before the first analysis
    goal_achieved,    \* Conversation.goal_achieved
    stop_conversation,\* Conversation.stop_conversation
    goal_stopped,     \* the stop path has been executed
    last_op,          \* history: what the last step did
    retry             \* analyze_goal: the loop variable of the call in progress

gvars == <<goals, current, goal_achieved, stop_conversation, goal_stopped, last_op,
           retry>>

VARIABLES
    \* ---- one Conversation and its decision loop ----
    conv_state,       \* Conversation.state
    conv_continue,    \* Conversation.should_continue
    loop_pc,          \* where its _conversation_loop is: "goal", "refresh", "plan",
                      \* "act", "send", "notice", "returned", "crashed"
    action,           \* the action being handled, "none" outside _handle_action
    registered,       \* the conversation is in _instances
    generated_reply,  \* Conversation.generated_reply: "none", "empty" or "text"
    messages,         \* the observer's history: "none" (empty), "good", or "bad"
                      \* (it holds a record _convert_to_message cannot convert)
    new_messages_count, \* DecisionInfo.new_messages_count
    stop_cause,       \* history: "", or why the stop path ran: "judge", "timeout"
    fault,            \* history: "", or the call whose exception ended the loop
    last_send,        \* history: "none", or how the last send_message ended: "ok", "raised"
    action_history,   \* Conversation.action_history, each entry as the number of its dispatch
    dispatched,       \* history: number of _handle_action calls so far
    notice,           \* history: how _send_timeout_message went: "none" (not called),
                      \* "no_message", "convert_failed", "sending", "sent", "send_failed"
    wait_report,      \* history: what Waiter.wait returned to the current action:
                      \* "none", "timeout", "message"
    clears,           \* history: number of clear_unprocessed_messages calls of the loop
    planned_count,    \* history: new_messages_count as the last planner call read it
    lost              \* history: a clear discarded a message no planner call had counted

hvars == <<notice, wait_report, clears, planned_count, lost>>

lvars == <<conv_state, conv_continue, loop_pc, action, registered,
           generated_reply, messages, new_messages_count, stop_cause, fault,
           last_send, action_history, dispatched, hvars>>

VARIABLES
    \* ---- more of each Conversation object ----
    inst_ended,       \* Conversation.state is ConversationState.ENDED
    stop_runs         \* history: how many times _stop_conversation ran on the instance

VARIABLES
    \* ---- Conversation._instance_lock ----
    lock,             \* the asyncio.Lock: [locked, owner], owner being the call
                      \* whose acquire() locked it (None when free)
    release_log       \* history, per call: how its last release() went:
                      \* "" (none yet), "held" (it held the lock), "unheld" (the
                      \* lock was free: RuntimeError), "foreign" (it released a
                      \* lock another call held)

kvars == <<lock, release_log>>

xvars == <<inst_ended, stop_runs, kvars>>

VARIABLES
    \* ---- one Waiter.wait call and the clock ----
    now,              \* time.time(), in whole time units
    wait_pc,          \* "idle", "sleeping" (in asyncio.sleep(1)), "done"
    wait_start_time,  \* the local wait_start_time of the call
    wait_result,      \* the value returned
    last_report       \* history: what new_message_after answered at the last poll

wvars == <<now, wait_pc, wait_start_time, wait_result, last_report>>

VARIABLES
    \* ---- one DecisionInfo and its PFCNotificationHandler ----
    decision_info,    \* the DecisionInfo record
    propagated,       \* the last handle_notification call let an exception out
    last_event        \* history: the last operation on decision_info

dvars == <<decision_info, propagated, last_event>>

\* The components added after the registry, the goal list and the loop.
ovars == <<wvars, dvars>>

vars == <<rvars, gvars, lvars, xvars, ovars>>

LoopPcs == {"goal", "refresh", "plan", "act"}

NoLoops == [p \in LoopPcs |-> 0]

\* Move one loop execution of instance i from position p to position q
\* (q = "gone": the coroutine has returned or died).
MoveLoop(i, p, q) ==
    [loops EXCEPT ![i] =
        [r \in LoopPcs |->
            IF r = p /\ r = q THEN @[r]
            ELSE IF r = p THEN @[r] - 1
            ELSE IF r = q THEN @[r] + 1
            ELSE @[r]]]

\* asyncio.Lock(): not locked.
FreeLock == [locked |-> FALSE, owner |-> None]

\* Lock.acquire() by call c returns without suspending when the lock is free;
\* otherwise the call stays suspended (the acquiring action is not enabled).
CanAcquire(l) == ~l.locked

Acquired(c) == [locked |-> TRUE, owner |-> c]

\* Lock.release(): raises RuntimeError on a lock that is not locked and
\* leaves it as it is; otherwise unlocks it, whoever calls.
Released(l) == FreeLock

ReleaseOutcome(l, c) ==
    IF ~l.locked THEN "unheld"
    ELSE IF l.owner = c THEN "held" ELSE "foreign"

\* `async with cls._instance_lock:` around a body without suspension:
\* acquire on entry, release in __aexit__ on every way out.
LockedSection(c) ==
    /\ CanAcquire(lock)
    /\ lock' = Released(Acquired(c))
    /\ release_log' = [release_log EXCEPT ![c] = ReleaseOutcome(Acquired(c), c)]

\* Entry of `async with`, then `cls._instance_lock.release()` before the wait.
WaitRelease(c) ==
    /\ CanAcquire(lock)
    /\ lock' = Released(Acquired(c))
    /\ release_log' = [release_log EXCEPT ![c] = ReleaseOutcome(Acquired(c), c)]

\* After the wait: `await cls._instance_lock.acquire()`, then the way out of
\* `async with` releases.
Reacquire(c) ==
    /\ CanAcquire(lock)
    /\ lock' = Released(Acquired(c))
    /\ release_log' = [release_log EXCEPT ![c] = ReleaseOutcome(Acquired(c), c)]

\* wait_for raised TimeoutError: acquire() is skipped, and the `return None`
\* of the handler leaves `async with`, whose __aexit__ calls release().
TimeoutExit(c) ==
    /\ lock' = IF lock.locked THEN Released(lock) ELSE lock
    /\ release_log' = [release_log EXCEPT ![c] = ReleaseOutcome(lock, c)]

AddLoop(ls, i) == [ls EXCEPT ![i]["goal"] = @ + 1]

RInit ==
    /\ instances = [k \in Keys |-> None]
    /\ initializing = [k \in Keys |-> FALSE]
    /\ init_events = [k \in Keys |-> None]
    /\ event_set = {}
    /\ attempts = 0
    /\ caller_pc = [c \in Callers |-> "idle"]
    /\ caller_key = [c \in Callers |-> None]
    /\ caller_event = [c \in Callers |-> None]
    /\ caller_result = [c \in Callers |-> None]
    /\ inst_key = [i \in Ids |-> None]
    /\ init_pc = [i \in Ids |-> "none"]
    /\ should_continue = [i \in Ids |-> FALSE]
    /\ loops = [i \in Ids |-> NoLoops]
    /\ starts = 0
    /\ observer = [k \in Keys |-> "idle"]
    /\ epoch = [k \in Keys |-> 0]
    /\ caller_epoch = [c \in Callers |-> 0]
    /\ inst_epoch = [i \in Ids |-> 0]
    /\ fail_fired = {}
    /\ caller_note = [c \in Callers |-> ""]
    /\ fresh_remove = [k \in Keys |-> FALSE]
    /\ caller_after_remove = [c \in Callers |-> FALSE]
    /\ inst_ended = [i \in Ids |-> FALSE]
    /\ stop_runs = [i \in Ids |-> 0]
    /\ lock = FreeLock
    /\ release_log = [c \in Callers |-> ""]


(***************************************************************************)
(* Conversation.get_instance                                               *)
(***************************************************************************)

\* `stream_id in cls._instances`: the unlocked check and the check repeated
\* under the lock (no suspension lies between the two).
InRegistry(k) == instances[k] # None

\* `stream_id in cls._initializing and cls._initializing[stream_id]`, and the
\* event found in _init_events.
MustWait(k) == initializing[k] /\ init_events[k] # None

\* Variant: the check after the wait is left out.
RecheckAfterWait_skipped(k) == FALSE

\* The check after the wait, with the lock held again.
RecheckAfterWait(k) == instances[k] # None

\* `cls._instances[stream_id] = instance`
Register(k, n) == [instances EXCEPT ![k] = n]

\* Variant: no task is created.
StartInitTask_missing(n) == init_pc

\* `asyncio.create_task(instance._initialize())`
StartInitTask(n) == [init_pc EXCEPT ![n] = "pending"]

\* Conversation(stream_id): the fields a fresh object starts with.
NewShouldContinue == TRUE

\* Calls are numbered in the order in which they are made.
IsNextCall(c) ==
    /\ caller_pc[c] = "idle"
    /\ \A d \in Callers : d < c => caller_pc[d] # "idle"

\* A call of get_instance(k) begins.
Begin(c, k) ==
    /\ IsNextCall(c)
    /\ caller_key' = [caller_key EXCEPT ![c] = k]
    /\ caller_after_remove' = [caller_after_remove EXCEPT ![c] = fresh_remove[k]]
    /\ fresh_remove' = [fresh_remove EXCEPT ![k] = FALSE]

\* The call returns value r.
Return(c, r, note) ==
    /\ caller_pc' = [caller_pc EXCEPT ![c] = "done"]
    /\ caller_result' = [caller_result EXCEPT ![c] = r]
    /\ caller_epoch' = [caller_epoch EXCEPT ![c] = epoch[caller_key'[c]]]
    /\ caller_note' = [caller_note EXCEPT ![c] = note]

\* "创建新实例": mark the key, make a new Event, construct, register, start
\* the background initialization, return the instance.  A constructor that
\* raises leaves through `except Exception` with None.
Create(c, k, ok, note) ==
    LET n == attempts + 1 IN
    /\ attempts < MaxAttempts
    /\ attempts' = n
    /\ initializing' = [initializing EXCEPT ![k] = TRUE]
    /\ init_events' = [init_events EXCEPT ![k] = n]
    /\ IF ok
       THEN /\ instances' = Register(k, n)
            /\ inst_key' = [inst_key EXCEPT ![n] = k]
            /\ should_continue' = [should_continue EXCEPT ![n] = NewShouldContinue]
            /\ inst_epoch' = [inst_epoch EXCEPT ![n] = epoch[k]]
            /\ init_pc' = StartInitTask(n)
            /\ Return(c, n, note)
       ELSE /\ UNCHANGED <<instances, inst_key, should_continue, inst_epoch, init_pc>>
            /\ Return(c, None, IF note = "created" THEN "ctor_failed"
                                                   ELSE "woke_ctor_failed")
    /\ UNCHANGED <<event_set, loops, starts, observer, epoch, fail_fired, gvars, lvars, ovars,
                   inst_ended, stop_runs>>

\* The instance exists: returned at once.
get_instance_found(c, k) ==
    /\ Begin(c, k)
    /\ InRegistry(k)
    /\ Return(c, instances[k], "fast")
    /\ UNCHANGED <<instances, initializing, init_events, event_set, attempts,
                   caller_event, inst_key, init_pc, should_continue, loops,
                   starts, observer, epoch, inst_epoch, fail_fired, gvars, lvars, ovars, xvars>>

\* Another creation is marked as in progress: release the lock and suspend
\* in wait_for(event.wait(), timeout=10.0).
get_instance_wait(c, k) ==
    /\ Begin(c, k)
    /\ ~InRegistry(k)
    /\ MustWait(k)
    /\ WaitRelease(c)
    /\ caller_pc' = [caller_pc EXCEPT ![c] = "waiting"]
    /\ caller_event' = [caller_event EXCEPT ![c] = init_events[k]]
    /\ UNCHANGED <<instances, initializing, init_events, event_set, attempts,
                   caller_result, inst_key, init_pc, should_continue, loops,
                   starts, observer, epoch, caller_epoch, inst_epoch,
                   fail_fired, caller_note, gvars, lvars, ovars, inst_ended, stop_runs>>

\* No instance and nothing to wait for: create.
get_instance_create(c, k, ok) ==
    /\ Begin(c, k)
    /\ ~InRegistry(k)
    /\ ~MustWait(k)
    /\ LockedSection(c)
    /\ UNCHANGED caller_event
    /\ Create(c, k, ok, "created")

\* The event was set: take the lock again, return the instance if there is
\* one; otherwise control leaves the `if` and reaches "创建新实例".
get_instance_wake(c, ok) ==
    LET k == caller_key[c] IN
    /\ caller_pc[c] = "waiting"
    /\ caller_event[c] \in event_set
    /\ Reacquire(c)
    /\ UNCHANGED <<caller_key, caller_event, fresh_remove, caller_after_remove>>
    /\ IF RecheckAfterWait(k)
       THEN /\ ok
            /\ Return(c, instances[k], "woke_found")
            /\ UNCHANGED <<instances, initializing, init_events, event_set,
                           attempts, inst_key, init_pc, should_continue, loops,
                           starts, observer, epoch, inst_epoch, fail_fired, gvars, lvars, ovars,
                           inst_ended, stop_runs>>
       ELSE Create(c, k, ok, "woke_created")

\* Variant: the key's event is left in _init_events.
TimedOutEvents_kept(k) == init_events

\* `del cls._init_events[stream_id]` when the key is there
TimedOutEvents(k) == [init_events EXCEPT ![k] = None]

\* asyncio.TimeoutError: clear the flag, delete the key's event, return None.
\* (The lock is not held here; __aexit__'s release() then raises
\* RuntimeError, which `except Exception` turns into the same None.)
\* The timer can win even when the event has just been set.
get_instance_timeout(c) ==
    LET k == caller_key[c] IN
    /\ caller_pc[c] = "waiting"
    /\ initializing' = [initializing EXCEPT ![k] = FALSE]
    /\ init_events' = TimedOutEvents(k)
    /\ TimeoutExit(c)
    /\ UNCHANGED <<caller_key, caller_event, fresh_remove, caller_after_remove>>
    /\ Return(c, None, "timeout")
    /\ UNCHANGED <<instances, event_set, attempts, inst_key, init_pc,
                   should_continue, loops, starts, observer, epoch, inst_epoch,
                   fail_fired, gvars, lvars, ovars, inst_ended, stop_runs>>

(***************************************************************************)
(* remove_instance(stream_id): stop the stream's observer feed and evict   *)
(* the key from _instances.                                                *)
(***************************************************************************)
RemovedRegistry(k) == [instances EXCEPT ![k] = None]

StoppedObserver(k) ==
    IF instances[k] # None THEN [observer EXCEPT ![k] = "stopped"] ELSE observer

Evicted(k) ==
    IF instances[k] # None THEN [epoch EXCEPT ![k] = @ + 1] ELSE epoch

remove_instance(k) ==
    /\ instances[k] # None
    /\ instances' = RemovedRegistry(k)
    /\ observer' = StoppedObserver(k)
    /\ epoch' = Evicted(k)
    /\ fresh_remove' = [fresh_remove EXCEPT ![k] = TRUE]
    /\ UNCHANGED <<initializing, init_events, event_set, attempts, caller_pc,
                   caller_key, caller_event, caller_result, inst_key, init_pc,
                   should_continue, loops, starts, caller_epoch, inst_epoch,
                   fail_fired, caller_note, caller_after_remove, gvars, lvars, ovars, xvars>>

(***************************************************************************)
(* Conversation._initialize (the background task)                          *)
(***************************************************************************)

\* `self.__class__._init_events[self.stream_id].set()` when the key is there.
FireEvent(k) ==
    IF init_events[k] # None THEN event_set \cup {init_events[k]} ELSE event_set

\* From the start of the task to `await asyncio.sleep(1)`.  The one call
\* that can raise is chat_observer.start(); the `except` branch then clears
\* the flag, sets the key's event and deletes the key from _instances.
initialize_begin(i, ok) ==
    LET k == inst_key[i] IN
    /\ init_pc[i] = "pending"
    /\ IF ok
       THEN /\ observer' = [observer EXCEPT ![k] = "running"]
            /\ init_pc' = [init_pc EXCEPT ![i] = "running"]
            /\ UNCHANGED <<initializing, event_set, fail_fired, instances, epoch>>
       ELSE /\ initializing' = [initializing EXCEPT ![k] = FALSE]
            /\ event_set' = FireEvent(k)
            /\ fail_fired' = IF init_events[k] # None /\ init_events[k] \notin event_set
                             THEN fail_fired \cup {init_events[k]} ELSE fail_fired
            /\ instances' = RemovedRegistry(k)
            /\ epoch' = Evicted(k)
            /\ init_pc' = [init_pc EXCEPT ![i] = "failed"]
            /\ UNCHANGED observer
    /\ UNCHANGED <<init_events, attempts, caller_pc, caller_key, caller_event,
                   caller_result, inst_key, should_continue, loops, starts,
                   caller_epoch, inst_epoch, caller_note, fresh_remove,
                   caller_after_remove, gvars, lvars, ovars, xvars>>

\* After the sleep and analyze_goal (which catches every Exception): clear
\* the flag, set the key's event, create the _conversation_loop task.
initialize_finish(i) ==
    LET k == inst_key[i] IN
    /\ init_pc[i] = "running"
    /\ initializing' = [initializing EXCEPT ![k] = FALSE]
    /\ event_set' = FireEvent(k)
    /\ loops' = AddLoop(loops, i)
    /\ init_pc' = [init_pc EXCEPT ![i] = "done"]
    /\ UNCHANGED <<instances, init_events, attempts, caller_pc, caller_key,
                   caller_event, caller_result, inst_key, should_continue,
                   starts, observer, epoch, caller_epoch, inst_epoch,
                   fail_fired, caller_note, fresh_remove, caller_after_remove, gvars, lvars, ovars, xvars>>

(***************************************************************************)
(* Conversation.start and Conversation._conversation_loop                  *)
(***************************************************************************)

\* start(): set should_continue and run the loop in the caller's task, up to
\* the first suspension (the analyze_goal call before the while).
start(i) ==
    /\ inst_key[i] # None
    /\ starts < MaxStarts
    /\ starts' = starts + 1
    /\ should_continue' = [should_continue EXCEPT ![i] = TRUE]
    /\ loops' = AddLoop(loops, i)
    /\ UNCHANGED <<instances, initializing, init_events, event_set, attempts,
                   caller_pc, caller_key, caller_event, caller_result, inst_key,
                   init_pc, observer, epoch, caller_epoch, inst_epoch,
                   fail_fired, caller_note, fresh_remove, caller_after_remove, gvars, lvars, ovars, xvars>>

\* `while self.should_continue`: the position a loop execution goes to.
WhileCheck(i) == IF should_continue[i] THEN "refresh" ELSE "gone"

LoopFrame ==
    UNCHANGED <<gvars, lvars, ovars, instances, initializing, init_events, event_set, attempts,
                caller_pc, caller_key, caller_event, caller_result, inst_key,
                init_pc, should_continue, starts, observer, epoch, caller_epoch,
                inst_epoch, fail_fired, caller_note, fresh_remove,
                caller_after_remove>>

\* analyze_goal returned; first test of the while condition, then
\* trigger_update and the suspension in wait_for_update.
conversation_loop_enter(i) ==
    /\ loops[i]["goal"] > 0
    /\ loops' = MoveLoop(i, "goal", WhileCheck(i))
    /\ LoopFrame
    /\ UNCHANGED xvars

\* wait_for_update returned (or timed out, which is only logged): the
\* planner is called.
conversation_loop_plan(i) ==
    /\ loops[i]["refresh"] > 0
    /\ loops' = MoveLoop(i, "refresh", "plan")
    /\ LoopFrame
    /\ UNCHANGED xvars

\* The planner returned (it catches every Exception): _handle_action starts
\* and suspends in its handler.
conversation_loop_dispatch(i) ==
    /\ loops[i]["plan"] > 0
    /\ loops' = MoveLoop(i, "plan", "act")
    /\ inst_ended' = [inst_ended EXCEPT ![i] = FALSE]
    /\ UNCHANGED <<stop_runs, kvars>>
    /\ LoopFrame

\* A handler returns without stopping: clear_unprocessed_messages, then the
\* while condition.
handle_action_return(i) ==
    /\ loops[i]["act"] > 0
    /\ loops' = MoveLoop(i, "act", WhileCheck(i))
    /\ LoopFrame
    /\ UNCHANGED xvars

\* A handler raises (e.g. _convert_to_message re-raises): nothing catches
\* it in _handle_action or _conversation_loop, the coroutine dies.
handle_action_raise(i) ==
    /\ loops[i]["act"] > 0
    /\ loops' = MoveLoop(i, "act", "gone")
    /\ LoopFrame
    /\ UNCHANGED xvars

\* Variant: the flag is toggled.
StoppedFlag_toggled(i) == [should_continue EXCEPT ![i] = ~@]

\* `self.should_continue = False`
StoppedFlag(i) == [should_continue EXCEPT ![i] = FALSE]

\* _stop_conversation (after a judged stop or a Waiter timeout):
\* should_continue = False, state = ENDED, remove_instance(self.stream_id);
\* the while condition then ends the loop.
StopConversation(i) ==
    LET k == inst_key[i] IN
    /\ loops[i]["act"] > 0
    /\ should_continue' = StoppedFlag(i)
    /\ inst_ended' = [inst_ended EXCEPT ![i] = TRUE]
    /\ stop_runs' = [stop_runs EXCEPT ![i] = @ + 1]
    /\ UNCHANGED kvars
    /\ instances' = RemovedRegistry(k)
    /\ observer' = StoppedObserver(k)
    /\ epoch' = Evicted(k)
    /\ loops' = MoveLoop(i, "act", "gone")
    /\ fresh_remove' = IF instances[k] # None
                       THEN [fresh_remove EXCEPT ![k] = TRUE] ELSE fresh_remove
    /\ UNCHANGED <<initializing, init_events, event_set, attempts, caller_pc,
                   caller_key, caller_event, caller_result, inst_key, init_pc,
                   starts, caller_epoch, inst_epoch, fail_fired, caller_note,
                   caller_after_remove, gvars, lvars, ovars>>

(***************************************************************************)
(* GoalAnalyzer: the goal list, and the goal fields of its Conversation    *)
(***************************************************************************)

\* Goal texts are strings: sequences of characters, a character being a
\* number.  The texts a completion may propose:
Texts ==
    { << >>,
      <<1, 2, 3, 4, 5, 6, 7>>,
      <<7, 6, 5, 4, 3, 2, 1>>,
      <<1, 2, 3, 4, 5, 6, 7, 8>>,
      <<1, 2, 3, 4, 5, 6, 7, 8, 9, 10>>,
      <<9, 10, 9>> }

\* The reasonings a completion may give are 1..MaxReasoning.
MaxReasoning == 2
Reasonings == 1..MaxReasoning

\* method = "以友好的态度回应"
Method == "friendly"

\* ("保持友好的对话", "以友好的态度回应", "确保对话顺利进行")
DefaultGoal == << <<11, 12>>, Method, 0 >>

NoGoal == << >>

max_goals == 3

\* The threshold 0.7, as the fraction ThresholdNum/ThresholdDen.
ThresholdNum == 7
ThresholdDen == 10

\* set(goal)
CharSet(text) == {text[n] : n \in DOMAIN text}

\* _calculate_similarity: overlap / total, or 0 when total = 0; the quotient
\* is kept as the pair <<numerator, denominator>>.
calculate_similarity(goal1, goal2) ==
    LET words1 == CharSet(goal1)
        words2 == CharSet(goal2)
        overlap == Cardinality(words1 \cap words2)
        total == Cardinality(words1 \cup words2)
    IN  IF total > 0 THEN <<overlap, total>> ELSE <<0, 1>>

\* `similarity > 0.7`.  For these small integers the float quotient compares
\* with the float 0.7 exactly as the fractions do.
AboveThreshold(sim) == sim[1] * ThresholdDen > ThresholdNum * sim[2]

\* similarity >= 0.7 (what "at least 0.7" would be)
AtLeastThreshold(sim) == sim[1] * ThresholdDen >= ThresholdNum * sim[2]

\* Index of the first goal of gs the loop of _update_goals finds similar to
\* new_goal, 0 when it finds none.
FirstSimilar(gs, new_goal) ==
    LET hits == {n \in DOMAIN gs :
                    AboveThreshold(calculate_similarity(new_goal, gs[n][1]))}
    IN  IF hits = {} THEN 0 ELSE CHOOSE n \in hits : \A m \in hits : n <= m

\* gs without its element at index n: list.pop(n)
Pop(gs, n) == SubSeq(gs, 1, n - 1) \o SubSeq(gs, n + 1, Len(gs))

\* Variant: pop(0) instead of pop().
Capped_front(gs) == IF Len(gs) > max_goals THEN Tail(gs) ELSE gs

\* `if len(self.goals) > self.max_goals: self.goals.pop()`
Capped(gs) == IF Len(gs) > max_goals THEN SubSeq(gs, 1, Len(gs) - 1) ELSE gs

\* Variant: the similar goal is replaced where it stands, not moved.
update_goals_in_place(gs, new_goal, method, reasoning) ==
    LET n == FirstSimilar(gs, new_goal)
        triple == <<new_goal, method, reasoning>>
    IN  IF n # 0
        THEN [gs EXCEPT ![n] = triple]
        ELSE Capped(<<triple>> \o gs)

\* _update_goals(new_goal, method, reasoning): the list afterwards.
update_goals(gs, new_goal, method, reasoning) ==
    LET n == FirstSimilar(gs, new_goal)
        triple == <<new_goal, method, reasoning>>
    IN  IF n # 0
        THEN \* self.goals[i] = triple; self.goals.insert(0, self.goals.pop(i))
             <<triple>> \o Pop(gs, n)
        ELSE Capped(<<triple>> \o gs)

\* get_alternative_goals
get_alternative_goals(gs) == IF Len(gs) <= 1 THEN << >> ELSE Tail(gs)

\* The removal in analyze_conversation: the first goal whose text equals
\* `goal` is popped.
RemoveAchieved(gs, goal) ==
    LET hits == {n \in DOMAIN gs : gs[n][1] = goal}
    IN  IF hits = {} THEN gs
        ELSE Pop(gs, CHOOSE n \in hits : \A m \in hits : n <= m)

\* analyze_conversation(goal, reasoning): <<achieved, stop, goals afterwards>>
\* for a completion that parsed (or not) into the answers achieved and stop.
analyze_conversation(gs, goal, parsed, achieved, stop) ==
    IF ~parsed THEN <<FALSE, FALSE, gs>>
    ELSE IF achieved /\ ~stop THEN <<achieved, stop, RemoveAchieved(gs, goal)>>
    ELSE <<achieved, stop, gs>>

GInit ==
    /\ goals = << >>
    /\ current = NoGoal
    /\ goal_achieved = FALSE
    /\ stop_conversation = FALSE
    /\ goal_stopped = FALSE
    /\ last_op = [kind |-> "init"]
    /\ retry = 0

\* analyze_goal with an attempt that parses into (goal, reasoning): the list
\* is updated and the front goal returned; the caller (_initialize, the start
\* of _conversation_loop, or the rethink_goal handler) stores it as the
\* current goal.
analyze_goal_parsed(new_goal, reasoning) ==
    LET after == update_goals(goals, new_goal, Method, reasoning) IN
    /\ ~goal_stopped \/ retry > 0
    /\ retry' = 0
    /\ goals' = after
    /\ current' = IF after # << >> THEN after[1] ELSE <<new_goal, Method, reasoning>>
    /\ last_op' = [kind |-> "update",
                   proposal |-> <<new_goal, Method, reasoning>>,
                   prelen |-> Len(goals),
                   similar |-> FirstSimilar(goals, new_goal),
                   atleast |-> \E n \in DOMAIN goals :
                       AtLeastThreshold(calculate_similarity(new_goal, goals[n][1]))]
    /\ UNCHANGED <<goal_achieved, stop_conversation, goal_stopped, rvars, xvars, ovars, lvars>>

\* `max_retries = 3`
max_retries == 3

\* Variant: no attempt is the last one.
LastAttempt_never(r) == FALSE

\* `for retry in range(max_retries)`: the attempt after which the loop ends
\* (`if retry == max_retries - 1` in the except branch).
LastAttempt(r) == r = max_retries - 1

\* An attempt of analyze_goal fails (the answer does not parse, or an
\* Exception is caught) and another attempt follows.
analyze_goal_failed ==
    /\ ~goal_stopped \/ retry > 0
    /\ ~LastAttempt(retry)
    /\ retry' = retry + 1
    /\ last_op' = [kind |-> "retry", attempts |-> retry + 1]
    /\ UNCHANGED <<goals, current, goal_achieved, stop_conversation, goal_stopped,
                   rvars, xvars, ovars, lvars>>

\* The last attempt of analyze_goal fails: the default triple.
analyze_goal_default ==
    /\ LastAttempt(retry)
    /\ retry' = 0
    /\ current' = DefaultGoal
    /\ last_op' = [kind |-> "default", attempts |-> retry + 1]
    /\ UNCHANGED <<goals, goal_achieved, stop_conversation, goal_stopped, rvars, xvars, ovars, lvars>>

\* The judge_conversation handler of _handle_action.
judge_conversation(parsed, achieved, stop) ==
    LET res == analyze_conversation(goals, current[1], parsed, achieved, stop)
        alternative_goals == get_alternative_goals(res[3])
        switch == res[1] /\ ~res[2] /\ alternative_goals # << >>
    IN
    /\ ~goal_stopped
    /\ current # NoGoal
    /\ goal_achieved' = res[1]
    /\ stop_conversation' = res[2]
    /\ goals' = res[3]
    /\ current' = IF switch THEN alternative_goals[1] ELSE current
    /\ goal_stopped' = (~switch /\ res[2])
    /\ last_op' = [kind |-> "judge",
                   prelen |-> Len(goals),
                   listed |-> \E n \in DOMAIN goals : goals[n] = current,
                   front |-> (goals # << >> /\ goals[1] = current),
                   switched |-> switch]
    /\ UNCHANGED <<retry, rvars, xvars, ovars, lvars>>

(***************************************************************************)
(* One Conversation: _conversation_loop, _handle_action, _send_reply,      *)
(* _send_timeout_message, _stop_conversation                               *)
(***************************************************************************)

\* Messages a model run delivers at most.
MaxMessages == 2

\* The action tags ActionPlanner.plan can return.
ActionTags ==
    {"direct_reply", "fetch_knowledge", "wait", "listening", "rethink_goal",
     "judge_conversation"}

\* Actions a model run dispatches at most.
MaxDispatches == 12

\* `if len(self.action_history) > 10: ... [-10:]`
HistoryLimit == 10

\* Variant: the first 10 entries are kept.
Recorded_oldest_kept(h, e) ==
    LET x == Append(h, e) IN
    IF Len(x) > HistoryLimit THEN SubSeq(x, 1, HistoryLimit) ELSE x

\* `self.action_history.append(...)`, then only the last 10 entries are
\* kept.  An entry is identified by the number of its dispatch.
Recorded(h, e) ==
    LET x == Append(h, e) IN
    IF Len(x) > HistoryLimit THEN SubSeq(x, Len(x) - HistoryLimit + 1, Len(x)) ELSE x

\* The state _handle_action sets on entry of each branch.
EntryState(a) ==
    CASE a = "direct_reply" -> "GENERATING"
      [] a = "fetch_knowledge" -> "GENERATING"
      [] a = "rethink_goal" -> "RETHINKING"
      [] a = "judge_conversation" -> "JUDGING"
      [] a = "listening" -> "LISTENING"
      [] OTHER -> "WAITING"

\* `[self._convert_to_message(msg) for msg in messages]`: _convert_to_message
\* logs and re-raises, so one record it cannot convert raises here.
ConvertRaises(a) == a \in {"direct_reply", "fetch_knowledge"} /\ messages = "bad"

LInit ==
    /\ conv_state = "INIT"
    /\ conv_continue = TRUE
    /\ loop_pc = "goal"
    /\ action = "none"
    /\ registered = TRUE
    /\ generated_reply = "none"
    /\ messages = "none"
    /\ new_messages_count = 0
    /\ stop_cause = ""
    /\ fault = ""
    /\ last_send = "none"
    /\ action_history = << >>
    /\ dispatched = 0
    /\ notice = "none"
    /\ wait_report = "none"
    /\ clears = 0
    /\ planned_count = 0
    /\ lost = FALSE

\* `while self.should_continue`, with the new value c of should_continue.
LoopWhile(c) == IF c THEN "refresh" ELSE "returned"

\* The clear drops n counted messages of which the last planner call had
\* read `seen`.
Discards(n, seen) == n > seen

\* _handle_action returned: clear_unprocessed_messages, then the while
\* condition (and, when it holds, trigger_update and the next suspension).
FinishIteration(c) ==
    /\ new_messages_count' = 0
    /\ clears' = clears + 1
    /\ lost' = (lost \/ Discards(new_messages_count, planned_count))
    /\ action' = "none"
    /\ loop_pc' = LoopWhile(c)

\* An exception leaves _handle_action and _conversation_loop: nothing in
\* either catches it.
Crash(what) ==
    /\ loop_pc' = "crashed"
    /\ fault' = what
    /\ action' = "none"
    /\ UNCHANGED <<clears, lost>>

\* PFCNotificationHandler.handle_notification for a NEW_MESSAGE (the observer
\* also appends the message to its history).
new_message(kind) ==
    /\ new_messages_count < MaxMessages
    /\ new_messages_count' = new_messages_count + 1
    /\ messages' = kind
    /\ UNCHANGED <<conv_state, conv_continue, loop_pc, action, registered,
                   generated_reply, stop_cause, fault, last_send, action_history, dispatched, hvars, rvars, xvars, ovars, gvars>>

\* analyze_goal before the loop returned: the first test of the condition.
loop_enter ==
    /\ loop_pc = "goal"
    /\ loop_pc' = LoopWhile(conv_continue)
    /\ UNCHANGED <<conv_state, conv_continue, action, registered, generated_reply,
                   messages, new_messages_count, stop_cause, fault, last_send, action_history, dispatched, hvars, rvars, xvars, ovars, gvars>>

\* wait_for_update returned (a timeout is only logged): the planner is called.
loop_plan ==
    /\ loop_pc = "refresh"
    /\ loop_pc' = "plan"
    /\ planned_count' = new_messages_count
    /\ UNCHANGED <<conv_state, conv_continue, action, registered, generated_reply,
                   messages, new_messages_count, stop_cause, fault, last_send, action_history, dispatched, notice, wait_report, clears, lost, rvars, xvars, ovars, gvars>>

\* The planner returned tag a (on any error of its own: "direct_reply").
\* _handle_action records the action, sets the state of the branch and runs
\* to the first suspension of the branch; the conversion of the history is
\* evaluated before the collaborator is awaited.
handle_action(a) ==
    /\ loop_pc = "plan"
    /\ dispatched < MaxDispatches
    /\ dispatched' = dispatched + 1
    /\ action_history' = Recorded(action_history, dispatched + 1)
    /\ conv_state' = EntryState(a)
    /\ wait_report' = "none"
    /\ IF ConvertRaises(a)
       THEN Crash("convert_to_message")
       ELSE /\ loop_pc' = "act"
            /\ action' = a
            /\ UNCHANGED <<fault, clears, lost>>
    /\ UNCHANGED <<conv_continue, registered, generated_reply, messages,
                   new_messages_count, stop_cause, last_send, notice, planned_count, rvars, xvars, ovars, gvars>>

\* _stop_conversation: should_continue = False, state = ENDED, remove_instance.
StopPath(cause) ==
    /\ conv_continue' = FALSE
    /\ conv_state' = "ENDED"
    /\ registered' = FALSE
    /\ stop_cause' = cause

\* Variant: only the reply is tested.
SendSkipped_reply_only(reply) == reply = "empty"

\* _send_reply returns at once: `not self.generated_reply`, or
\* get_message_history(limit=1) is empty.
SendSkipped(reply) == reply = "empty" \/ messages = "none"

\* direct_reply: generate and check_reply returned (ok) or one of them raised;
\* then _send_reply runs up to the await of send_message.
direct_reply_checked(reply, ok) ==
    /\ loop_pc = "act"
    /\ action = "direct_reply"
    /\ IF ~ok
       THEN /\ Crash("reply_generator")
            /\ UNCHANGED <<generated_reply, new_messages_count>>
       ELSE /\ generated_reply' = reply
            /\ IF SendSkipped(reply)
               THEN FinishIteration(conv_continue) /\ UNCHANGED fault
               ELSE IF messages = "bad"
               THEN Crash("convert_to_message") /\ UNCHANGED new_messages_count
               ELSE /\ loop_pc' = "send"
                    /\ UNCHANGED <<action, fault, new_messages_count, clears, lost>>
    /\ UNCHANGED <<conv_state, conv_continue, registered, messages, stop_cause,
                   last_send, action_history, dispatched, notice, wait_report, planned_count, rvars, xvars, ovars, gvars>>

\* Variant: the state is left as it is.
SendFailedState_kept == conv_state

\* `except Exception`: `self.state = ConversationState.ANALYZING`
SendFailedState == "ANALYZING"

\* send_message returned or raised; either way state = ANALYZING.
send_reply_done(ok) ==
    /\ loop_pc = "send"
    /\ conv_state' = IF ok THEN "ANALYZING" ELSE SendFailedState
    /\ last_send' = IF ok THEN "ok" ELSE "raised"
    /\ FinishIteration(conv_continue)
    /\ UNCHANGED <<conv_continue, registered, generated_reply, messages,
                   stop_cause, fault, action_history, dispatched, notice, wait_report, planned_count, rvars, xvars,
                   ovars, gvars>>

\* fetch_knowledge: knowledge_fetcher.fetch returned or raised.
fetch_knowledge_done(ok) ==
    /\ loop_pc = "act"
    /\ action = "fetch_knowledge"
    /\ IF ok
       THEN FinishIteration(conv_continue) /\ UNCHANGED fault
       ELSE Crash("knowledge_fetcher") /\ UNCHANGED new_messages_count
    /\ UNCHANGED <<conv_state, conv_continue, registered, generated_reply,
                   messages, stop_cause, last_send, action_history, dispatched, notice, wait_report, planned_count, rvars, xvars, ovars, gvars>>

\* rethink_goal: analyze_goal returned (it catches every Exception).
rethink_goal_done ==
    /\ loop_pc = "act"
    /\ action = "rethink_goal"
    /\ FinishIteration(conv_continue)
    /\ UNCHANGED <<conv_state, conv_continue, registered, generated_reply,
                   messages, stop_cause, fault, last_send, action_history, dispatched, notice, wait_report, planned_count, rvars, xvars, ovars, gvars>>

\* judge_conversation: analyze_conversation returned (achieved, stop);
\* alternatives: get_alternative_goals() is not empty.
judge_done(achieved, stop, alternatives) ==
    /\ loop_pc = "act"
    /\ action = "judge_conversation"
    /\ goal_achieved' = achieved
    /\ stop_conversation' = stop
    /\ IF ~(achieved /\ ~stop /\ alternatives) /\ stop
       THEN /\ StopPath("judge")
            /\ FinishIteration(FALSE)
       ELSE /\ FinishIteration(conv_continue)
            /\ UNCHANGED <<conv_state, conv_continue, registered, stop_cause>>
    /\ UNCHANGED <<generated_reply, messages, fault, last_send, action_history, dispatched, notice, wait_report, planned_count, rvars, xvars, ovars, goals, current, retry,
                   goal_stopped, last_op>>

\* Variant: an exception of the send leaves _send_timeout_message.
NoticeCaught_propagates == FALSE

\* _send_timeout_message: `except Exception` logs and returns.
NoticeCaught == TRUE

\* What follows a Waiter timeout once _send_timeout_message has returned:
\* _stop_conversation, then the loop's clear and the while condition.
AfterNotice ==
    /\ StopPath("timeout")
    /\ FinishIteration(FALSE)
    /\ UNCHANGED fault

\* listening / wait: Waiter.wait returned.  On a timeout
\* _send_timeout_message runs: with no message in the history it returns at
\* once; a record it cannot convert raises inside its try; otherwise it
\* suspends in send_message.
wait_done(timed_out) ==
    /\ loop_pc = "act"
    /\ action \in {"listening", "wait"}
    /\ wait_report' = IF timed_out THEN "timeout" ELSE "message"
    /\ IF ~timed_out
       THEN /\ FinishIteration(conv_continue)
            /\ UNCHANGED <<conv_state, conv_continue, registered, stop_cause,
                           notice, fault>>
       ELSE IF messages = "none"
       THEN notice' = "no_message" /\ AfterNotice
       ELSE IF messages = "bad"
       THEN IF NoticeCaught
            THEN notice' = "convert_failed" /\ AfterNotice
            ELSE /\ Crash("send_timeout_message")
                 /\ notice' = "convert_failed"
                 /\ UNCHANGED <<conv_state, conv_continue, registered,
                                stop_cause, new_messages_count>>
       ELSE /\ notice' = "sending"
            /\ loop_pc' = "notice"
            /\ UNCHANGED <<conv_state, conv_continue, registered, stop_cause,
                           action, fault, new_messages_count, clears, lost>>
    /\ UNCHANGED <<generated_reply, messages, last_send, action_history,
                   dispatched, planned_count, rvars, xvars, ovars, gvars>>

\* send_message of the timeout notice returned or raised; then the stop path.
timeout_notice_done(ok) ==
    /\ loop_pc = "notice"
    /\ notice' = IF ok THEN "sent" ELSE "send_failed"
    /\ IF ok \/ NoticeCaught
       THEN AfterNotice
       ELSE /\ Crash("send_timeout_message")
            /\ UNCHANGED <<conv_state, conv_continue, registered, stop_cause,
                           new_messages_count>>
    /\ UNCHANGED <<generated_reply, messages, last_send, action_history,
                   dispatched, wait_report, planned_count, rvars, xvars, ovars, gvars>>

(***************************************************************************)
(* DecisionInfo and PFCNotificationHandler.handle_notification             *)
(***************************************************************************)

\* Time stamps of messages and of the clock, and the unprocessed messages a
\* model run lets accumulate.
MaxTime == 2
MaxUnprocessed == 2

\* The bot's own user id and one other user; "bad" is a user_info that
\* UserInfo.from_dict cannot read.
BotId == "bot"
Senders == {BotId, "user"}

\* Payloads of a notification: None, a string, and message records as a
\* dict or as a mapping that is no dict; time = None: the record has no
\* "time" key.  A cold-chat payload is a dict with "is_cold".
MessagePayloads ==
    [shape : {"dict", "mapping"}, time : 0..MaxTime, sender : Senders \cup {"bad"}]
ColdPayloads == [shape : {"dict"}, is_cold : BOOLEAN]
Payloads == {[shape |-> "none"], [shape |-> "text"]} \cup MessagePayloads \cup ColdPayloads

\* Notifications: None, an object without a data attribute, and typed
\* notifications with a payload.
Notifications ==
    {[kind |-> "null"], [kind |-> "no_data"]}
    \cup [kind : {"typed"}, type : {"NEW_MESSAGE", "COLD_CHAT"}, data : Payloads]

\* DecisionInfo() with bot_id set; floats are whole numbers here.
NewDecisionInfo ==
    [last_message_time |-> None,
     last_message_content |-> None,
     last_message_sender |-> None,
     new_messages_count |-> 0,
     unprocessed_messages |-> << >>,
     is_cold_chat |-> FALSE,
     cold_chat_duration |-> 0,
     last_bot_speak_time |-> None,
     last_user_speak_time |-> None,
     active_users |-> {},
     bot_id |-> BotId]

IsMessage(m) == "time" \in DOMAIN m /\ "sender" \in DOMAIN m

\* DecisionInfo.update_from_message, statement by statement: the result is
\* the record as the call leaves it, whether it returns or raises.
update_from_message(info, m) ==
    IF ~IsMessage(m) \/ m.time = None
    THEN info                                   \* message["time"] raises
    ELSE LET a == [info EXCEPT !.last_message_time = m.time,
                               !.last_message_content = "text"] IN
         IF m.sender = "bad"
         THEN a                                 \* UserInfo.from_dict raises
         ELSE LET b == [a EXCEPT !.last_message_sender = m.sender] IN
              LET c == IF m.sender = info.bot_id
                       THEN [b EXCEPT !.last_bot_speak_time = m.time]
                       ELSE [b EXCEPT !.last_user_speak_time = m.time,
                                      !.active_users = @ \cup {m.sender}] IN
              [c EXCEPT !.new_messages_count = @ + 1,
                        !.unprocessed_messages = Append(@, m)]

\* DecisionInfo.update_cold_chat_status
update_cold_chat_status(info, is_cold, current_time) ==
    LET a == [info EXCEPT !.is_cold_chat = is_cold] IN
    IF is_cold /\ info.last_message_time # None
    THEN [a EXCEPT !.cold_chat_duration = current_time - info.last_message_time]
    ELSE a

\* Variant: only the counter is reset.
Cleared_count_only(info) == [info EXCEPT !.new_messages_count = 0]

\* DecisionInfo.clear_unprocessed_messages
Cleared(info) ==
    [info EXCEPT !.unprocessed_messages = << >>, !.new_messages_count = 0]

\* `not notification or not hasattr(notification, 'data') or
\* notification.data is None`
Invalid(n) ==
    \/ n.kind = "null"
    \/ n.kind = "no_data"
    \/ n.data.shape = "none"

\* Variant: any payload passes.
IsRecord_any(data) == TRUE

\* `isinstance(message, dict)`
IsRecord(data) == data.shape = "dict"

\* The decision info after handle_notification(n) at time current_time.
\* Every exception is caught, by the inner handlers or by the outer one.
Handled(info, n, current_time) ==
    IF Invalid(n) THEN info
    ELSE IF n.type = "NEW_MESSAGE"
    THEN IF ~IsRecord(n.data) THEN info
         ELSE IF n.data.shape = "text" THEN info   \* message.get raises
         ELSE update_from_message(info, n.data)
    ELSE IF n.data.shape \in {"dict", "mapping"}
         THEN update_cold_chat_status(
                  info,
                  IF "is_cold" \in DOMAIN n.data THEN n.data.is_cold ELSE FALSE,
                  current_time)
         ELSE info                                 \* data.get raises

\* `except Exception as e`: logged, nothing is raised again.
Propagates(n) == FALSE

\* The payload is a message that update_from_message appends.
Appended(n) ==
    /\ ~Invalid(n)
    /\ n.type = "NEW_MESSAGE"
    /\ IsRecord(n.data)
    /\ IsMessage(n.data)
    /\ n.data.time # None
    /\ n.data.sender # "bad"

DInit ==
    /\ decision_info = NewDecisionInfo
    /\ propagated = FALSE
    /\ last_event = [op |-> "init"]

\* Variant: the handler also sets the state of its conversation.
InfoFrame_sets_state ==
    /\ conv_state' = "ANALYZING"
    /\ UNCHANGED <<conv_continue, loop_pc, action, registered, generated_reply,
                   messages, new_messages_count, stop_cause, fault, last_send,
                   action_history, dispatched, hvars>>
    /\ UNCHANGED <<rvars, gvars, xvars, wvars>>

\* The handler and the DecisionInfo methods assign fields of the
\* DecisionInfo only.
InfoFrame == UNCHANGED <<rvars, gvars, lvars, xvars, wvars>>

handle_notification(n, current_time) ==
    /\ Appended(n) => decision_info.new_messages_count < MaxUnprocessed
    /\ decision_info' = Handled(decision_info, n, current_time)
    /\ propagated' = Propagates(n)
    /\ last_event' = [op |-> "notify", n |-> n]
    /\ InfoFrame

clear_unprocessed_messages ==
    /\ decision_info' = Cleared(decision_info)
    /\ last_event' = [op |-> "clear"]
    /\ UNCHANGED propagated
    /\ InfoFrame

(***************************************************************************)
(* Waiter.wait                                                             *)
(***************************************************************************)

\* The clock values a model run goes through, the latest time a wait may
\* start, and the longest time one asyncio.sleep(1) may take.
MaxClock == 304
MaxStartTime == 2
MaxSleep == 2

\* `time.time() - wait_start_time > 300`
WaitCeiling == 300

WInit ==
    /\ now = 0
    /\ wait_pc = "idle"
    /\ wait_start_time = 0
    /\ wait_result = FALSE
    /\ last_report = FALSE

\* Variant: the ceiling is tested before the new-message report.
Poll_ceiling_first(reported, since, t) ==
    IF t - since > WaitCeiling THEN "timeout"
    ELSE IF reported THEN "message"
    ELSE "sleep"

\* Variant: the ceiling is never tested.
Poll_no_ceiling(reported, since, t) ==
    IF reported THEN "message" ELSE "sleep"

\* One pass through the body of `while True`, at time t: the report of
\* new_message_after(wait_start_time) first, then the ceiling, else sleep.
Poll(reported, since, t) ==
    IF reported THEN "message"
    ELSE IF t - since > WaitCeiling THEN "timeout"
    ELSE "sleep"

\* What a pass leaves behind: the position and the value returned.
Polled(reported, since, t) ==
    LET p == Poll(reported, since, t) IN
    /\ wait_pc' = IF p = "sleep" THEN "sleeping" ELSE "done"
    /\ wait_result' = (p = "timeout")
    /\ last_report' = reported

WaitFrame == UNCHANGED <<rvars, gvars, lvars, xvars, dvars>>

\* Time passes before the wait is called.
wait_tick ==
    /\ wait_pc = "idle"
    /\ now < MaxStartTime
    /\ now' = now + 1
    /\ UNCHANGED <<wait_pc, wait_start_time, wait_result, last_report>>
    /\ WaitFrame

\* wait() is called: wait_start_time = time.time(), then the first pass.
wait_begin(reported) ==
    /\ wait_pc = "idle"
    /\ wait_start_time' = now
    /\ Polled(reported, now, now)
    /\ UNCHANGED now
    /\ WaitFrame

\* asyncio.sleep(1) returns after d >= 1 units, then the next pass.
wait_poll(d, reported) ==
    /\ wait_pc = "sleeping"
    /\ now + d <= MaxClock
    /\ now' = now + d
    /\ Polled(reported, wait_start_time, now + d)
    /\ UNCHANGED wait_start_time
    /\ WaitFrame

InitWait == RInit /\ GInit /\ LInit /\ WInit /\ DInit

NextWait ==
    \/ wait_tick
    \/ \E reported \in BOOLEAN : wait_begin(reported)
    \/ \E d \in 1..MaxSleep, reported \in BOOLEAN : wait_poll(d, reported)

SpecWait == InitWait /\ [][NextWait]_vars

\* asyncio.sleep(1) returns, and the clock has advanced when it does.
FairSpecWait ==
    SpecWait /\ WF_vars(\E d \in 1..MaxSleep, reported \in BOOLEAN : wait_poll(d, reported))

InitInfo == RInit /\ GInit /\ LInit /\ WInit /\ DInit

NextInfo ==
    \/ \E n \in Notifications, current_time \in 1..MaxTime :
           handle_notification(n, current_time)
    \/ clear_unprocessed_messages

SpecInfo == InitInfo /\ [][NextInfo]_vars

InitLoop == RInit /\ GInit /\ LInit /\ WInit /\ DInit

NextLoop ==
    \/ \E kind \in {"good", "bad"} : new_message(kind)
    \/ loop_enter
    \/ loop_plan
    \/ \E a \in ActionTags : handle_action(a)
    \/ \E reply \in {"empty", "text"}, ok \in BOOLEAN : direct_reply_checked(reply, ok)
    \/ \E ok \in BOOLEAN : send_reply_done(ok)
    \/ \E ok \in BOOLEAN : fetch_knowledge_done(ok)
    \/ rethink_goal_done
    \/ \E achieved, stop, alternatives \in BOOLEAN : judge_done(achieved, stop, alternatives)
    \/ \E timed_out \in BOOLEAN : wait_done(timed_out)
    \/ \E ok \in BOOLEAN : timeout_notice_done(ok)

SpecLoop == InitLoop /\ [][NextLoop]_vars

\* The send_message awaited by _send_timeout_message returns or raises.
FairSpecLoop ==
    SpecLoop /\ WF_vars(\E ok \in BOOLEAN : timeout_notice_done(ok))

\* One conversation's loop, for its first dispatches, and one notification
\* handled at any moment of it.
MaxNotifyDispatches == 2

InitNotify == RInit /\ GInit /\ LInit /\ WInit /\ DInit

NextNotify ==
    \/ dispatched < MaxNotifyDispatches /\ NextLoop
    \/ \E n \in Notifications, current_time \in 1..MaxTime :
           last_event.op = "init" /\ handle_notification(n, current_time)

SpecNotify == InitNotify /\ [][NextNotify]_vars

InitGoal == RInit /\ GInit /\ LInit /\ WInit /\ DInit

NextGoal ==
    \/ \E g \in Texts, r \in Reasonings : analyze_goal_parsed(g, r)
    \/ analyze_goal_failed
    \/ analyze_goal_default
    \/ \E parsed, achieved, stop \in BOOLEAN : judge_conversation(parsed, achieved, stop)

SpecGoal == InitGoal /\ [][NextGoal]_vars

\* analyze_goal alone, with the proposals of one reasoning.
AnalyzeStep ==
    \/ \E g \in Texts : analyze_goal_parsed(g, 1)
    \/ analyze_goal_failed
    \/ analyze_goal_default

SpecAnalyze == InitGoal /\ [][AnalyzeStep]_vars

\* Every completion request of analyze_goal is answered or raises.
FairSpecAnalyze == SpecAnalyze /\ WF_vars(AnalyzeStep)

Init == RInit /\ GInit /\ LInit /\ WInit /\ DInit

Next ==
    \/ \E c \in Callers, k \in Keys : get_instance_found(c, k)
    \/ \E c \in Callers, k \in Keys : get_instance_wait(c, k)
    \/ \E c \in Callers, k \in Keys, ok \in BOOLEAN : get_instance_create(c, k, ok)
    \/ \E c \in Callers, ok \in BOOLEAN : get_instance_wake(c, ok)
    \/ \E c \in Callers : get_instance_timeout(c)
    \/ \E k \in Keys : remove_instance(k)
    \/ \E i \in Ids, ok \in BOOLEAN : initialize_begin(i, ok)
    \/ \E i \in Ids : initialize_finish(i)
    \/ \E i \in Ids : start(i)
    \/ \E i \in Ids : conversation_loop_enter(i)
    \/ \E i \in Ids : conversation_loop_plan(i)
    \/ \E i \in Ids : conversation_loop_dispatch(i)
    \/ \E i \in Ids : handle_action_return(i)
    \/ \E i \in Ids : handle_action_raise(i)
    \/ \E i \in Ids : StopConversation(i)

Spec == Init /\ [][Next]_vars

\* The scheduler resumes a task whose wait_for has completed or timed out.
FairSpec ==
    /\ Spec
    /\ \A c \in Callers :
          WF_vars(get_instance_timeout(c) \/ \E ok \in BOOLEAN : get_instance_wake(c, ok))

(***************************************************************************)
(* Properties of the registry (specification Spec)                         *)
(***************************************************************************)

Returned(c) == caller_pc[c] = "done" /\ caller_result[c] # None

\* C1: between two evictions of a key, all get_instance calls on the key
\* that return an instance return the same one, only one instance is ever
\* constructed and registered for the key, and that instance has exactly the
\* one background initialization get_instance started for it.
C1_SameInstance ==
    /\ \A c, d \in Callers :
          ( /\ Returned(c) /\ Returned(d)
            /\ caller_key[c] = caller_key[d]
            /\ caller_epoch[c] = caller_epoch[d] )
          => caller_result[c] = caller_result[d]
    /\ \A i, j \in Ids :
          ( /\ inst_key[i] # None
            /\ inst_key[i] = inst_key[j]
            /\ inst_epoch[i] = inst_epoch[j] )
          => i = j
    /\ \A i \in Ids : (inst_key[i] # None) <=> (init_pc[i] # "none")
    /\ \A k \in Keys : instances[k] # None =>
          /\ inst_key[instances[k]] = k
          /\ inst_epoch[instances[k]] = epoch[k]

\* Two calls that were suspended in the wait at the same time, woken by the
\* same event: one created the instance, the other found it.
C1_Witness ==
    \E c, d \in Callers :
        /\ c # d
        /\ caller_note[c] = "woke_created"
        /\ caller_note[d] = "woke_found"
        /\ caller_event[c] = caller_event[d]
        /\ caller_result[c] = caller_result[d]
        /\ caller_result[c] # None

\* C2: no Conversation ever has two _handle_action executions in progress.
C2_OneDispatchAtATime == \A i \in Ids : loops[i]["act"] <= 1

\* C4: a get_instance call woken by the signal of a failed initialization
\* returns None and creates nothing.
C4_WaitersGetFailure ==
    \A c \in Callers :
        ( /\ caller_pc[c] = "done"
          /\ caller_event[c] \in fail_fired
          /\ caller_note[c] \in {"woke_found", "woke_created", "woke_ctor_failed"} )
        => ( /\ caller_result[c] = None
             /\ caller_note[c] = "woke_found" )

\* C5: a call whose wait times out clears the key's flag, removes the key's
\* event, returns None and constructs nothing ...
C5_TimeoutStep ==
    [][ \A c \in Callers :
          ( /\ caller_pc[c] = "waiting"
            /\ caller_pc'[c] = "done"
            /\ caller_note'[c] = "timeout" )
          => ( /\ ~initializing'[caller_key[c]]
               /\ init_events'[caller_key[c]] = None
               /\ caller_result'[c] = None
               /\ attempts' = attempts
               /\ instances' = instances
               /\ init_pc' = init_pc ) ]_vars

\* ... and every call that waits returns.
C5_Terminates ==
    \A c \in Callers : (caller_pc[c] = "waiting") ~> (caller_pc[c] = "done")

\* C5: a get_instance call whose wait times out clears the key's flag and
\* event and returns None, and every waiting call eventually returns.
C5_TimeoutReturnsNone == C5_TimeoutStep /\ C5_Terminates

C5_Witness ==
    \E c \in Callers :
        /\ caller_pc[c] = "done"
        /\ caller_note[c] = "timeout"
        /\ caller_result[c] = None

JudgedAchieved ==
    last_op'.kind = "judge" /\ goal_achieved' /\ ~stop_conversation'

\* Rank of the achieved (current) goal in the list, 0 when it is not listed.
RankOf(gs, goal) ==
    LET hits == {n \in DOMAIN gs : gs[n][1] = goal}
    IN  IF hits = {} THEN 0 ELSE CHOOSE n \in hits : \A m \in hits : n <= m

\* C7: when judge_conversation yields achieved and not stop and a goal is
\* ranked after the achieved one, that next-ranked goal becomes the current
\* goal and the stop path is not executed.
C7_PromotesNextRanked ==
    [][ ( /\ JudgedAchieved
          /\ RankOf(goals, current[1]) # 0
          /\ RankOf(goals, current[1]) < Len(goals) )
        => ( /\ current' = goals[RankOf(goals, current[1]) + 1]
             /\ ~goal_stopped' ) ]_vars

\* C8: no two goals of the list are more than 0.7 similar.
C8_NoSimilarPair ==
    \A m, n \in DOMAIN goals :
        m < n => ~AboveThreshold(calculate_similarity(goals[m][1], goals[n][1]))

\* The step just taken merged a proposal.
Merged == last_op'.kind = "update"

RanksAtLeast(gs, goal) ==
    {n \in DOMAIN gs : AtLeastThreshold(calculate_similarity(goal, gs[n][1]))}

RanksAbove(gs, goal) ==
    {n \in DOMAIN gs : AboveThreshold(calculate_similarity(goal, gs[n][1]))}

\* C9 as stated: a proposal at least 0.7 similar to an existing goal replaces
\* such a goal, is moved to the front, and the list keeps its length.
C9_MergeAtLeast ==
    [][ ( /\ Merged
          /\ RanksAtLeast(goals, last_op'.proposal[1]) # {} )
        => \E n \in RanksAtLeast(goals, last_op'.proposal[1]) :
              goals' = <<last_op'.proposal>> \o Pop(goals, n) ]_vars

\* C9 as amended: a proposal more than 0.7 similar to an existing goal
\* replaces the first-ranked such goal, is moved to the front, and the list
\* keeps its length; a proposal that is exactly 0.7 similar to a goal and more
\* than 0.7 similar to none is not merged but inserted as a new goal.
C9_MergeAbove ==
    [][ Merged =>
          LET p == last_op'.proposal
              above == RanksAbove(goals, p[1])
          IN  /\ above # {} =>
                    /\ Len(goals') = Len(goals)
                    /\ goals'[1] = p
                    /\ \E n \in above :
                          /\ \A m \in above : n <= m
                          /\ Tail(goals') = Pop(goals, n)
              /\ (above = {} /\ RanksAtLeast(goals, p[1]) # {}) =>
                    /\ goals'[1] = p
                    /\ \A n \in DOMAIN goals :
                          n < max_goals => goals'[n + 1] = goals[n] ]_vars

\* A goal that was not at the front was replaced by a similar proposal and
\* moved to the front.
C9_Witness ==
    /\ last_op.kind = "update"
    /\ last_op.similar >= 2
    /\ Len(goals) = last_op.prelen
    /\ goals[1] = last_op.proposal

\* C10: the list never holds more than 3 goals ...
C10_AtMostThree == Len(goals) <= 3

\* ... and a proposal similar to no goal of a full list goes to the front
\* while the last-ranked goal is dropped.
C10_EvictsLast ==
    [][ ( /\ Merged
          /\ Len(goals) = 3
          /\ RanksAbove(goals, last_op'.proposal[1]) = {} )
        => goals' = <<last_op'.proposal, goals[1], goals[2]>> ]_vars

\* C10: the goal list never holds more than 3 goals, and an insertion into a
\* full list evicts the last-ranked goal.
C10_Capacity == []C10_AtMostThree /\ C10_EvictsLast

C10_Witness ==
    /\ last_op.kind = "update"
    /\ last_op.prelen = 3
    /\ last_op.similar = 0
    /\ Len(goals) = 3
    /\ goals[1] = last_op.proposal

\* C17, the state part: no call makes more than 3 attempts; a call that
\* ends with a parsed attempt returns the front of the list, which is the
\* proposal it merged; a call ends with the default triple after exactly 3
\* failed attempts.
C17_Attempts ==
    /\ retry \in 0..2
    /\ last_op.kind = "retry" => last_op.attempts = retry /\ retry >= 1
    /\ last_op.kind = "update"
       => /\ goals # << >>
          /\ current = goals[1]
          /\ current = last_op.proposal
    /\ last_op.kind = "default"
       => /\ last_op.attempts = 3
          /\ current = DefaultGoal

\* C17, the step part: returning the default leaves the goal list as it was.
C17_DefaultKeepsGoals == [][ last_op'.kind = "default" => goals' = goals ]_vars

\* C17, termination: a call that has made an attempt returns.
C17_Returns == (retry > 0) ~> (retry = 0)

\* C17: analyze_goal makes at most 3 attempts and always returns: the front
\* of the list after merging a parsed proposal, or the default triple with
\* the list unchanged when all 3 attempts fail.
C17_AnalyzeGoal == []C17_Attempts /\ C17_DefaultKeepsGoals /\ C17_Returns

\* The default was returned while the list held goals.
C17_Witness ==
    /\ last_op.kind = "default"
    /\ last_op.attempts = 3
    /\ current = DefaultGoal
    /\ Len(goals) >= 2

(***************************************************************************)
(* Properties of the decision loop (specification SpecLoop)                *)
(***************************************************************************)

\* C3: the decision loop stops iterating only after an explicit stop
\* decision (a judged stop or a Waiter timeout).
C3_LoopEndsOnlyByStop ==
    loop_pc \in {"returned", "crashed"} => stop_cause \in {"judge", "timeout"}

C12_FeedStoppedOnLeave ==
    \A k \in Keys : instances[k] = None => observer[k] # "running"

\* C14: when send_message raises in _send_reply, nothing is propagated:
\* the state becomes ANALYZING and the loop goes on to its next iteration.
C14_SendFailureContinues ==
    [][ ( /\ loop_pc = "send"
          /\ loop_pc' # "send"
          /\ last_send' = "raised" )
        => ( /\ conv_state' = "ANALYZING"
             /\ loop_pc' = "refresh"
             /\ fault' = fault
             /\ conv_continue' ) ]_vars

\* After a send that raised, the loop has reached the planner again.
C14_Witness ==
    /\ last_send = "raised"
    /\ loop_pc = "plan"
    /\ conv_state = "ANALYZING"
    /\ fault = ""

\* C16: the action history holds the last min(n, 10) of the n actions
\* dispatched so far, in dispatch order, and the entry of an action is in
\* it while its handler runs.
C16_HistoryWindow ==
    /\ Len(action_history) = IF dispatched < 10 THEN dispatched ELSE 10
    /\ \A j \in 1..Len(action_history) :
           action_history[j] = dispatched - Len(action_history) + j
    /\ loop_pc \in {"act", "send"}
       => /\ action_history # << >>
          /\ action_history[Len(action_history)] = dispatched

\* Twelve actions dispatched: entries 1 and 2 have been dropped.
C16_Witness ==
    /\ dispatched = 12
    /\ Len(action_history) = 10
    /\ action_history[1] = 3
    /\ loop_pc = "act"

(***************************************************************************)
(* Properties of Waiter.wait (specification SpecWait)                      *)
(***************************************************************************)

\* C13: wait returns False exactly at a poll where a newer message is
\* reported (also when the ceiling is exceeded at that poll), returns True
\* only at a poll with no report and more than 300 units elapsed, and goes
\* on polling otherwise.
C13_WaitResult ==
    /\ wait_pc = "done"
       => /\ wait_result = FALSE <=> last_report
          /\ wait_result = TRUE => now - wait_start_time > WaitCeiling
    /\ wait_pc = "sleeping"
       => /\ ~last_report
          /\ now - wait_start_time <= WaitCeiling

\* A poll at which a message is reported and the ceiling is exceeded.
C13_Witness ==
    /\ wait_pc = "done"
    /\ last_report
    /\ now - wait_start_time > WaitCeiling
    /\ wait_start_time > 0
    /\ wait_result = FALSE

(***************************************************************************)
(* Properties of DecisionInfo and its handler (specification SpecInfo)     *)
(***************************************************************************)

\* The notifications C15 speaks of: None, no data or None data, and a
\* new-message payload that is no dict.
StructurallyInvalid(n) ==
    \/ n.kind \in {"null", "no_data"}
    \/ n.data.shape = "none"
    \/ n.type = "NEW_MESSAGE" /\ n.data.shape # "dict"

\* C15: handling a structurally invalid notification changes no field of
\* the decision info and raises nothing.
C15_InvalidDropped ==
    [][ ( /\ last_event'.op = "notify"
          /\ StructurallyInvalid(last_event'.n) )
        => ( /\ decision_info' = decision_info
             /\ ~propagated' ) ]_vars

\* A mapping that is no dict was dropped while the decision info held
\* unprocessed messages.
C15_Witness ==
    /\ last_event.op = "notify"
    /\ last_event.n.kind = "typed"
    /\ last_event.n.type = "NEW_MESSAGE"
    /\ last_event.n.data.shape = "mapping"
    /\ last_event.n.data.time # None
    /\ last_event.n.data.sender # "bad"
    /\ decision_info.new_messages_count = 1

NothingUnprocessed(info) ==
    info.new_messages_count = 0 /\ info.unprocessed_messages = << >>

\* C18: clear_unprocessed_messages sets the counter to 0 and empties the
\* list, changing no other field; and a decision info with nothing
\* unprocessed stays so in every step that handles no NEW_MESSAGE
\* notification.
C18_ClearResets ==
    [][ /\ last_event'.op = "clear"
           => /\ NothingUnprocessed(decision_info')
              /\ decision_info' = [decision_info EXCEPT !.new_messages_count = 0,
                                                        !.unprocessed_messages = << >>]
        /\ ( /\ NothingUnprocessed(decision_info)
             /\ ~( /\ last_event'.op = "notify"
                   /\ last_event'.n.kind = "typed"
                   /\ last_event'.n.type = "NEW_MESSAGE" ) )
           => NothingUnprocessed(decision_info') ]_vars

\* Messages were counted, then cleared, and a cold-chat notification handled
\* since has changed the decision info but not the counter or the list.
C18_Witness ==
    /\ last_event.op = "notify"
    /\ last_event.n.kind = "typed"
    /\ last_event.n.type = "COLD_CHAT"
    /\ decision_info.is_cold_chat
    /\ decision_info.last_message_time # None
    /\ decision_info.active_users # {}
    /\ NothingUnprocessed(decision_info)

(***************************************************************************)
(* Properties of Conversation._instance_lock                               *)
(***************************************************************************)

\* C19: every release() of the registry lock is made by the call that holds
\* it at that moment, on every path of get_instance: the creating path, the
\* waiting path's release before the wait, its return after re-acquiring,
\* and its timeout.
C19_ReleasedByHolder ==
    \A c \in Callers : release_log[c] \in {"", "held"}

\* C19: the lock is free whenever a call is suspended or finished, so no two
\* calls are inside the locked section together.
C19_FreeBetweenSteps == ~lock.locked

(***************************************************************************)
(* Properties of the decision loops of evicted instances                   *)
(***************************************************************************)

\* An execution of _conversation_loop of instance i is in the planner or in
\* a dispatched action handler.
PlansOrDispatches(i) == loops[i]["plan"] > 0 \/ loops[i]["act"] > 0

\* Instance i is the one _instances holds for its stream_id.
IsRegistered(i) == inst_key[i] # None /\ instances[inst_key[i]] = i

\* C20: a decision loop plans or dispatches an action only for the instance
\* that is registered for its stream key, also after remove_instance, after a
\* removal during the background initialization and after a removal followed
\* by a new get_instance.
C20_OnlyRegisteredLoops ==
    \A i \in Ids : PlansOrDispatches(i) => IsRegistered(i)

(***************************************************************************)
(* Properties of a stopped conversation                                    *)
(***************************************************************************)

\* _stop_conversation has run on instance i and should_continue is False.
StoppedByStopPath(i) == stop_runs[i] > 0 /\ ~should_continue[i]

\* A step in which an execution of the loop of instance i calls the planner
\* (it enters "plan") or dispatches an action (it enters "act").
PlansOrDispatchesNow(i) ==
    \/ loops'[i]["plan"] > loops[i]["plan"]
    \/ loops'[i]["act"] > loops[i]["act"]

\* C21: once the stop path has set should_continue to False for a
\* conversation, no step calls the Action Planner or dispatches an action
\* for it; what is in flight may only finish.
C21_NoPlanAfterStop ==
    [][\A i \in Ids : StoppedByStopPath(i) => ~PlansOrDispatchesNow(i)]_vars

(***************************************************************************)
(* Properties of the handling of a Waiter timeout                          *)
(***************************************************************************)

\* The conversation has ended: should_continue False, state ENDED, out of
\* the registry, its loop returned.
EndedByTimeout ==
    /\ loop_pc = "returned"
    /\ ~conv_continue
    /\ conv_state = "ENDED"
    /\ ~registered
    /\ stop_cause = "timeout"

\* C22: after the Waiter reported a timeout to a listening or wait action,
\* _send_timeout_message has been called and either its send is still
\* awaited or the stop path has run, whatever became of the notice.
C22_NoticeThenStop ==
    wait_report = "timeout" =>
        /\ notice # "none"
        /\ \/ loop_pc = "notice" /\ notice = "sending"
           \/ /\ EndedByTimeout
              /\ notice \in {"no_message", "convert_failed", "sent", "send_failed"}

\* C22: a reported timeout leads to the end of the conversation.
C22_TimeoutLeadsToEnd == (wait_report = "timeout") ~> EndedByTimeout

\* C22: whenever the Waiter reports a timeout during a listening or wait
\* action, a timeout notice is attempted and then the stop path is executed,
\* also when the send fails or there is no message to reply to: the
\* conversation ends with should_continue False, state ENDED and out of the
\* registry.
C22_TimeoutEnds == []C22_NoticeThenStop /\ C22_TimeoutLeadsToEnd

C22_Witness ==
    /\ wait_report = "timeout"
    /\ notice = "send_failed"
    /\ EndedByTimeout

(***************************************************************************)
(* Termination of Waiter.wait                                              *)
(***************************************************************************)

\* C23: no poll leaves the call sleeping once more than 300 units have
\* elapsed since wait_start_time.
C23_NoSleepPastCeiling ==
    wait_pc = "sleeping" => now - wait_start_time <= WaitCeiling

\* C23: a call that is sleeping returns.
C23_Returns == (wait_pc = "sleeping") ~> (wait_pc = "done")

\* C23: every call of Waiter.wait terminates when the clock advances: it
\* returns after finitely many polls, at the latest at the first poll at
\* which more than 300 units have elapsed, whether or not a message ever
\* arrives.
C23_WaitTerminates == []C23_NoSleepPastCeiling /\ C23_Returns

\* The call returned by the ceiling alone, after it had slept.
C23_Witness ==
    /\ wait_pc = "done"
    /\ wait_result = TRUE
    /\ ~last_report
    /\ now - wait_start_time = WaitCeiling + 1

(***************************************************************************)
(* Properties of the direct_reply branch and of _send_reply                *)
(***************************************************************************)

\* A step in which _handle_action returns from its direct_reply branch (it
\* did not raise).
DirectReplyCompletes ==
    /\ action = "direct_reply"
    /\ action' = "none"
    /\ loop_pc' # "crashed"

\* C24: whenever the handling of a direct_reply action completes, the
\* conversation state is ANALYZING.
C24_ReplyEndsAnalyzing ==
    [][DirectReplyCompletes => conv_state' = "ANALYZING"]_vars

\* A step in which _send_reply is entered with an empty generated reply or
\* with an empty history (the handler has just stored the reply).
SendPathEnteredIdle ==
    /\ loop_pc = "act"
    /\ action = "direct_reply"
    /\ loop_pc' \notin {"act", "crashed"}
    /\ generated_reply' = "empty" \/ messages = "none"

\* C25: entered with an empty generated reply or with no message in the
\* history, the send path does not call send_message and leaves the state
\* and the other fields of the conversation as they are.
C25_IdleSendPath ==
    [][SendPathEnteredIdle =>
         /\ loop_pc' # "send"
         /\ UNCHANGED <<conv_state, conv_continue, registered, last_send,
                        messages, action_history, stop_cause, gvars>>]_vars

\* The send path was entered with an empty reply while the history held a
\* message, and nothing was sent.
C25_Witness ==
    /\ generated_reply = "empty"
    /\ messages = "good"
    /\ loop_pc = "refresh"
    /\ conv_state = "GENERATING"
    /\ last_send = "none"

(***************************************************************************)
(* Properties of the loop's clear_unprocessed_messages                     *)
(***************************************************************************)

\* The loop is inside _handle_action (an iteration's dispatch is under way).
InDispatch == loop_pc \in {"act", "send", "notice"}

\* C26: every iteration of the decision loop clears the unprocessed-message
\* accumulator exactly once, and not before its dispatch has completed: while
\* a dispatch is under way the clears are one fewer than the dispatches, and
\* at every other position there are as many clears as dispatches.
C26_ClearedOncePerIteration ==
    IF InDispatch THEN clears = dispatched - 1 ELSE clears = dispatched

\* C26: the clear never runs while a dispatch is under way.
C26_ClearAfterDispatch ==
    [][clears' # clears => (InDispatch /\ ~InDispatch')]_vars

\* C28: every message counted in new_messages_count has been counted in the
\* DecisionInfo read by a planner call before the loop clears it: no clear
\* drops a message that the handler recorded after the iteration's planner
\* call.
C28_NoUnplannedDiscard == ~lost

(***************************************************************************)
(* Properties of the handler towards its conversation                      *)
(***************************************************************************)

\* A step in which handle_notification runs.
NotificationHandled == last_event.op = "init" /\ last_event'.op = "notify"

\* C27: handling a notification, valid or malformed, leaves the state of the
\* conversation, its goal triple, the goal list, the action history and
\* should_continue as they are, and with them everything that is no field of
\* the DecisionInfo; the state changes only in steps of the decision loop.
C27_HandlerFrame ==
    [][ /\ NotificationHandled =>
            /\ UNCHANGED <<conv_state, current, goals, action_history,
                           conv_continue, should_continue>>
            /\ UNCHANGED <<loop_pc, action, registered, generated_reply,
                           goal_achieved, stop_conversation>>
        /\ conv_state' # conv_state => ~NotificationHandled /\ loop_pc' # loop_pc
      ]_vars

\* A malformed message record was handled while the conversation was
\* listening, after an earlier dispatch.
C27_Witness ==
    /\ last_event.op = "notify"
    /\ last_event.n.kind = "typed"
    /\ last_event.n.type = "NEW_MESSAGE"
    /\ last_event.n.data.shape = "dict"
    /\ decision_info.last_message_time # None
    /\ decision_info.new_messages_count = 0
    /\ conv_state = "LISTENING"
    /\ loop_pc = "act"
    /\ Len(action_history) = 2

(***************************************************************************)
(* Properties of the cleanup done for one instance                         *)
(***************************************************************************)

\* A step of the _initialize task of instance i, or of its stop path.
CleansUp(i) ==
    \/ init_pc[i] \in {"pending", "running"} /\ init_pc'[i] # init_pc[i]
    \/ stop_runs'[i] > stop_runs[i]

\* A conversation made later for the same stream_id is being initialized.
LaterInitializing(i) ==
    \E j \in Ids :
        j > i /\ inst_key[j] = inst_key[i] /\ init_pc[j] \in {"pending", "running"}

\* C29: the cleanup done for instance i (the signalling at the end of its
\* initialization, its failure branch, its stop path) evicts no other
\* instance from _instances, sets no event but the one made with i, and
\* does not clear the flag while a later instance of the key is being
\* initialized.
C29_OwnCleanup ==
    [][\A i \in Ids :
          CleansUp(i) =>
              LET k == inst_key[i] IN
              /\ instances'[k] # instances[k] => instances[k] = i
              /\ event_set' \ event_set \subseteq {i}
              /\ initializing'[k] # initializing[k] => ~LaterInitializing(i)
      ]_vars

(***************************************************************************)
(* Properties of a creation whose constructor fails                        *)
(***************************************************************************)

\* The key is flagged as initializing with an event nobody has set, while
\* no instance is registered for it and no _initialize task runs for it.
OrphanFlag(k) ==
    /\ initializing[k]
    /\ init_events[k] # None
    /\ init_events[k] \notin event_set
    /\ instances[k] = None
    /\ \A i \in Ids : inst_key[i] = k => init_pc[i] \notin {"pending", "running"}

\* C30: a get_instance call that returns None because the constructor
\* raised leaves _instances, _initializing and _init_events as they were:
\* no key is left flagged as initializing, with a pending event, while no
\* instance is registered and no initialization runs for it.
C30_FailedCreateLeavesNoFlag ==
    \A c \in Callers :
        caller_note[c] \in {"ctor_failed", "woke_ctor_failed"}
            => ~OrphanFlag(caller_key[c])

==========================================================================
